---- MODULE Spec2Model ----
(***************************************************************************)
(* Model of comma/hypothesis.py: the Hypothesis class.                     *)
(*                                                                         *)
(*   filter_dates            the date-range extractor                      *)
(*   _get_one_hot_encoded_features, create_empty_hypotheses,               *)
(*   validate_param_file     the template generator and schema validator   *)
(*                                                                         *)
(* Every method is static or a classmethod and runs to completion on its   *)
(* arguments, so each is one action; what it returns or raises is kept in  *)
(* `outcome`.  Error messages are records holding the parts the code       *)
(* formats into the text.                                                  *)
(***************************************************************************)
EXTENDS Integers, Sequences, FiniteSets, TLC

VARIABLES
    call,         \* which entry point family this invocation exercises
    file_list,    \* the remote listing [items |-> paths], None until fetched
    dir,          \* the parameter directory: [spec, files]
    edits,        \* number of external hand edits made to the directory
    outcome       \* what the last call returned or raised

vars == <<call, file_list, dir, edits, outcome>>

\* Longest path list handed to filter_dates.
MaxLen == 3
\* Most hand edits made to a parameter directory.
MaxEdits == 2

None == [none |-> TRUE]
NoCall == [op |-> "none"]

RECURSIVE SeqToSet(_)
SeqToSet(s) == IF s = <<>> THEN {} ELSE {Head(s)} \cup SeqToSet(Tail(s))

(***************************************************************************)
(* Dates.  A date text is the matched substring YYYY-MM-DD, kept as its    *)
(* three digit groups; a datetime is what strptime builds from it.         *)
(***************************************************************************)
Years == {2021}
Months == {1, 2}
Days == {1, 30}
DateTexts == [y : Years, m : Months, d : Days]

IsLeap(y) == (y % 4 = 0) /\ ((y % 100 # 0) \/ (y % 400 = 0))

DaysInMonth(y, m) ==
    IF m = 2 THEN (IF IsLeap(y) THEN 29 ELSE 28)
    ELSE IF m \in {4, 6, 9, 11} THEN 30 ELSE 31

\* datetime.strptime(text, '%Y-%m-%d'): a datetime at midnight, or None
\* where strptime raises ValueError (no such calendar day).
strptime(t) ==
    IF t.m \in 1..12 /\ t.d >= 1 /\ t.d <= DaysInMonth(t.y, t.m)
    THEN [year |-> t.y, month |-> t.m, day |-> t.d,
          hour |-> 0, minute |-> 0, second |-> 0]
    ELSE None

\* str(datetime), as interpolated by the f-string: 'YYYY-MM-DD HH:MM:SS'.
DatetimeStr(dt) == <<dt.year, dt.month, dt.day, dt.hour, dt.minute, dt.second>>

\* datetime.__lt__ / __le__: field by field, most significant first.
DtKey(dt) == <<dt.year, dt.month, dt.day, dt.hour, dt.minute, dt.second>>

RECURSIVE TupleLess(_, _)
TupleLess(a, b) ==
    IF a = <<>> \/ b = <<>> THEN FALSE
    ELSE IF Head(a) # Head(b) THEN Head(a) < Head(b)
    ELSE TupleLess(Tail(a), Tail(b))

DtLt(a, b) == TupleLess(DtKey(a), DtKey(b))
DtLe(a, b) == a = b \/ DtLt(a, b)

(***************************************************************************)
(* Paths.  A path is a sequence of segments: literal text, or a substring  *)
(* that the pattern \d{4}-\d{2}-\d{2} matches.                             *)
(***************************************************************************)
Lit(s) == [lit |-> s]
IsDateSeg(seg) == "y" \in DOMAIN seg

DatedPath(t) == <<Lit("data-rivm/tests/rivm_daily_"), t, Lit(".csv.gz")>>
UndatedPath == <<Lit("data-rivm/tests/README.md")>>
TwoDatePath ==
    <<Lit("data-rivm/tests/rivm_"), [y |-> 2021, m |-> 1, d |-> 30],
      Lit("_to_"), [y |-> 2021, m |-> 2, d |-> 1], Lit(".csv.gz")>>

Paths == {DatedPath(t) : t \in DateTexts} \cup {UndatedPath, TwoDatePath}

\* pattern.search(file): the leftmost match, or None.
RECURSIVE PatternSearch(_)
PatternSearch(file) ==
    IF file = <<>> THEN None
    ELSE IF IsDateSeg(Head(file)) THEN Head(file)
    ELSE PatternSearch(Tail(file))

\* The requested windows: both ends are well-formed date strings.
ValidTexts == {t \in DateTexts : strptime(t) # None}
Windows == ValidTexts \X ValidTexts

(***************************************************************************)
(* filter_dates                                                            *)
(***************************************************************************)
\* The first loop: the dates of the paths that match, in list order.
\* raised is TRUE when strptime raises on a matched substring.
RECURSIVE CollectDates(_)
CollectDates(files) ==
    IF files = <<>> THEN [raised |-> FALSE, dates |-> <<>>]
    ELSE LET match == PatternSearch(Head(files))
         IN  IF match = None THEN CollectDates(Tail(files))
             ELSE IF strptime(match) = None
                  THEN [raised |-> TRUE, dates |-> <<>>]
             ELSE LET rest == CollectDates(Tail(files))
                  IN  IF rest.raised THEN rest
                      ELSE [raised |-> FALSE,
                            dates |-> <<strptime(match)>> \o rest.dates]

\* min(all_dates), max(all_dates)
RECURSIVE MinDate(_)
MinDate(ds) ==
    IF Len(ds) = 1 THEN ds[1]
    ELSE LET r == MinDate(Tail(ds))
         IN  IF DtLt(r, Head(ds)) THEN r ELSE Head(ds)

RECURSIVE MaxDate(_)
MaxDate(ds) ==
    IF Len(ds) = 1 THEN ds[1]
    ELSE LET r == MaxDate(Tail(ds))
         IN  IF DtLt(Head(ds), r) THEN r ELSE Head(ds)

OutsideAvailableEndOnly(start, end, min_date, max_date) ==
    DtLt(max_date, end)

\* start < min_date or end > max_date
OutsideAvailable(start, end, min_date, max_date) ==
    DtLt(start, min_date) \/ DtLt(max_date, end)

InWindowExclusiveStart(start, d, end) == DtLt(start, d) /\ DtLe(d, end)

\* start <= d <= end
InWindow(start, d, end) == DtLe(start, d) /\ DtLe(d, end)

\* The filtering comprehension.  pattern.search(file).group(1) raises
\* AttributeError on a path without a match: raised is then TRUE.
RECURSIVE FilterPaths(_, _, _)
FilterPaths(files, start, end) ==
    IF files = <<>> THEN [raised |-> FALSE, paths |-> <<>>]
    ELSE LET match == PatternSearch(Head(files))
         IN  IF match = None THEN [raised |-> TRUE, paths |-> <<>>]
             ELSE LET rest == FilterPaths(Tail(files), start, end)
                  IN  IF rest.raised THEN rest
                      ELSE IF InWindow(start, strptime(match), end)
                           THEN [raised |-> FALSE,
                                 paths |-> <<Head(files)>> \o rest.paths]
                           ELSE rest

NoDatesMsgSameAsOutside == [head |-> "time_period is outside available dates"]

NoDatesMsg == [head |-> "Dates provided are not within the list"]
OutsideMsg(time_period, min_date, max_date) ==
    [head |-> "time_period is outside available dates",
     requested |-> <<time_period[1], time_period[2]>>,
     available |-> <<DatetimeStr(min_date), DatetimeStr(max_date)>>]

Returned(op, v) == [op |-> op, kind |-> "return", value |-> v]
Raised(op, exc, msg) == [op |-> op, kind |-> "raise", exc |-> exc, msg |-> msg]

filter_dates(files, time_period) ==
    LET start == strptime(time_period[1])
        end == strptime(time_period[2])
        collected == CollectDates(files)
        all_dates == collected.dates
    IN  IF collected.raised
        THEN Raised("filter_dates", "ValueError",
                    [head |-> "day is out of range for month"])
        ELSE IF all_dates = <<>>
        THEN Raised("filter_dates", "ValueError", NoDatesMsg)
        ELSE IF OutsideAvailable(start, end,
                                 MinDate(all_dates), MaxDate(all_dates))
        THEN Raised("filter_dates", "ValueError",
                    OutsideMsg(time_period,
                               MinDate(all_dates), MaxDate(all_dates)))
        ELSE LET filtered_paths == FilterPaths(files, start, end)
             IN  IF filtered_paths.raised
                 THEN Raised("filter_dates", "AttributeError",
                             [head |-> "NoneType has no attribute group"])
                 ELSE Returned("filter_dates", filtered_paths.paths)

(***************************************************************************)
(* Class constants                                                         *)
(***************************************************************************)
PARAMS_INDIVIDUAL == "params_individual.json"

lockdown_policies == <<"absent", "easy", "medium", "hard">>

individual_status == <<"mh">>

all_possible_actions ==
    <<"work_from_home", "maintain_physical_distance", "stay_at_home",
      "exercise", "socialise", "travel", "seek_help", "negative_coping",
      "positive_coping", "socialise_online">>

(***************************************************************************)
(* Strings.  str.lower() on the column names that occur: each row holds a  *)
(* lower-case name and the other spellings of it.                          *)
(***************************************************************************)
CaseTable ==
    {<<"actions", {"Actions"}>>, <<"baseline", {"Baseline"}>>,
     <<"age", {"Age"}>>,
     <<"gender_f", {"Gender_f"}>>, <<"gender_m", {"Gender_m"}>>,
     <<"education_low", {"Education_low"}>>,
     <<"education_high", {"Education_high"}>>}

lowerKeepsCase(name) == name

lower(name) ==
    IF \E row \in CaseTable : name \in row[2]
    THEN (CHOOSE row \in CaseTable : name \in row[2])[1]
    ELSE name

\* The spellings that differ from name in letter case only.
Spellings(name) ==
    UNION {{row[1]} \cup row[2] : row \in {r \in CaseTable : r[1] = lower(name)}}

(***************************************************************************)
(* The parameter directory.  spec is the parsed params_individual.json     *)
(* (its key/value items in file order) or None when the file is absent;    *)
(* files maps each CSV file name present to its table: the header names    *)
(* and the first field of every row.                                       *)
(***************************************************************************)
Str(v) == [str |-> v]
Num(v) == [num |-> v]
IsStr(v) == "str" \in DOMAIN v

ParamsA ==
  [items |->
    <<[key |-> "gender", value |-> <<<<Str("f"), Str("m")>>, <<Num(1), Num(1)>>>>],
      [key |-> "age", value |-> <<<<Num(24), Num(65)>>, <<Num(1), Num(1)>>>>]>>]
ParamsB ==
  [items |->
    <<[key |-> "Education",
       value |-> <<<<Str("low"), Str("high")>>, <<Num(1), Num(1)>>>>]>>]
ParamsFiles == {ParamsA, ParamsB}

RECURSIVE Flatten(_)
Flatten(ss) == IF ss = <<>> THEN <<>> ELSE Head(ss) \o Flatten(Tail(ss))

\* _get_one_hot_encoded_features, on a file that exists
_get_one_hot_encoded_features(params_individual) ==
    Flatten([k \in 1..Len(params_individual.items) |->
        LET key == params_individual.items[k].key
            value == params_individual.items[k].value
        IN  IF IsStr(value[1][1])
            THEN [j \in 1..Len(value[1]) |-> key \o "_" \o value[1][j].str]
            ELSE <<key>>])

\* pd.DataFrame(0, index=range(len(actions)), columns=columns) with
\* df['actions'] = actions, as df.to_csv(sep=';', index=False) writes it
TemplateTable(params_individual) ==
    [header |-> <<"actions", "baseline">>
                  \o _get_one_hot_encoded_features(params_individual),
     labels |-> all_possible_actions]

\* hd[name]: the column's values, or raised for KeyError
Column(hd, name) ==
    IF name \notin SeqToSet(hd.header) THEN [raised |-> TRUE, values |-> <<>>]
    ELSE IF hd.header[1] = name THEN [raised |-> FALSE, values |-> hd.labels]
    ELSE [raised |-> FALSE, values |-> [k \in 1..Len(hd.labels) |-> "0"]]

(***************************************************************************)
(* create_empty_hypotheses                                                 *)
(***************************************************************************)
\* output_fpaths
GeneratedNames ==
    [k \in 1..Len(lockdown_policies) |->
        "lockdown_" \o lockdown_policies[k] \o ".csv"]
    \o [k \in 1..Len(individual_status) |->
        "actions_effects_on_" \o individual_status[k] \o ".csv"]

\* The call's result and the directory it leaves.
create_empty_hypotheses(d) ==
    IF d.spec = None
    THEN [result |-> Raised("create_empty_hypotheses", "FileNotFoundError",
                            [head |-> "file is missing in the directory",
                             filename |-> PARAMS_INDIVIDUAL]),
          dir |-> d]
    ELSE [result |-> Returned("create_empty_hypotheses", None),
          dir |-> [d EXCEPT !.files =
                     [fn \in DOMAIN d.files \cup SeqToSet(GeneratedNames) |->
                        IF fn \in SeqToSet(GeneratedNames)
                        THEN TemplateTable(d.spec)
                        ELSE d.files[fn]]]]

(***************************************************************************)
(* validate_param_file                                                     *)
(***************************************************************************)
\* fnames: one actions-effects file per status and policy, then one
\* lockdown file per policy
fnames ==
    Flatten([st \in 1..Len(individual_status) |->
        [k \in 1..Len(lockdown_policies) |->
            "actions_effects_on_" \o individual_status[st] \o "_"
                \o lockdown_policies[k] \o ".csv"]])
    \o [k \in 1..Len(lockdown_policies) |->
            "lockdown_" \o lockdown_policies[k] \o ".csv"]

MissingFilesFirstOnly(d) ==
    LET missing == SelectSeq(fnames, LAMBDA fn : fn \notin DOMAIN d.files)
    IN  IF missing = <<>> THEN missing ELSE <<Head(missing)>>

\* [fnames[i] for i in range(len(fnames)) if not fexist[i]]
MissingFiles(d) == SelectSeq(fnames, LAMBDA fn : fn \notin DOMAIN d.files)

\* set(f.lower() for f in required_features) - set(c.lower() for c in columns)
MissingFeaturesOf(required_features, hd) ==
    {lower(f) : f \in SeqToSet(required_features)}
        \ {lower(c) : c \in SeqToSet(hd.header)}

MissingActionsOfUnlessEqual(required_actions, hd) ==
    (SeqToSet(required_actions) \ SeqToSet(Column(hd, "actions").values))
        \cup (SeqToSet(Column(hd, "actions").values)
                 \ SeqToSet(required_actions))

\* set(required_actions) - set(hd["actions"])
MissingActionsOf(required_actions, hd) ==
    SeqToSet(required_actions) \ SeqToSet(Column(hd, "actions").values)

ReportLinesFirstOnly(missing) ==
    LET i == CHOOSE i \in 1..Len(fnames) :
                 missing[i] # {} /\ \A j \in 1..(i - 1) : missing[j] = {}
    IN  <<[file |-> fnames[i], names |-> missing[i]]>>

\* ["%s - %s" % (fnames[i], ", ".join(missing[i])) for i ... if missing[i]]
ReportLines(missing) ==
    LET Line(i) == [file |-> fnames[i], names |-> missing[i]]
        Idx == SelectSeq([i \in 1..Len(fnames) |-> i],
                         LAMBDA i : missing[i] # {})
    IN  [k \in 1..Len(Idx) |-> Line(Idx[k])]

validate_param_file(d) ==
    IF MissingFiles(d) # <<>>
    THEN Raised("validate_param_file", "ValueError",
                [head |-> "Hypothesis file(s) not found",
                 files |-> MissingFiles(d)])
    ELSE IF d.spec = None
    THEN Raised("validate_param_file", "FileNotFoundError",
                [head |-> "No such file or directory",
                 filename |-> PARAMS_INDIVIDUAL])
    ELSE
    LET required_features ==
            <<"actions", "baseline">> \o _get_one_hot_encoded_features(d.spec)
        hypothesis_data == [i \in 1..Len(fnames) |-> d.files[fnames[i]]]
        missing_features ==
            [i \in 1..Len(fnames) |->
                MissingFeaturesOf(required_features, hypothesis_data[i])]
        missing_actions ==
            [i \in 1..Len(fnames) |->
                MissingActionsOf(all_possible_actions, hypothesis_data[i])]
    IN  IF \E i \in 1..Len(fnames) : missing_features[i] # {}
        THEN Raised("validate_param_file", "ValueError",
                    [head |-> "Missing features",
                     lines |-> ReportLines(missing_features)])
        ELSE IF \E i \in 1..Len(fnames) :
                    Column(hypothesis_data[i], "actions").raised
        THEN Raised("validate_param_file", "KeyError", [head |-> "actions"])
        ELSE IF \E i \in 1..Len(fnames) : missing_actions[i] # {}
        THEN Raised("validate_param_file", "ValueError",
                    [head |-> "Missing actions",
                     lines |-> ReportLines(missing_actions)])
        ELSE Returned("validate_param_file", None)

(***************************************************************************)
(* The state machine                                                       *)
(***************************************************************************)
EmptyDir == [spec |-> None, files |-> <<>>]

\* A directory holding only the specification file.
SpecOnlyDir(params_individual) == [spec |-> params_individual, files |-> <<>>]

\* A directory whose hypothesis files have all been filled in by hand from
\* the template.
CompleteDir(params_individual) ==
    [spec |-> params_individual,
     files |-> [fn \in SeqToSet(fnames) |-> TemplateTable(params_individual)]]

\* The files that get edited by hand: an actions-effects file, and the first
\* and the last lockdown file.
EditedFiles ==
    {"actions_effects_on_mh_absent.csv",
     "lockdown_absent.csv", "lockdown_hard.csv"}

\* Labels a hand edit may remove from or add to a file's actions column.
EditedActions == {"work_from_home", "socialise_online"}
ExtraLabels == {"sleep"}

Init ==
    /\ call \in {"dates", "params"}
    /\ file_list = None
    /\ IF call = "dates" THEN dir = EmptyDir
       ELSE \E p \in ParamsFiles : dir \in {SpecOnlyDir(p), CompleteDir(p)}
    /\ edits = 0
    /\ outcome = NoCall

\* get_file_paths: the remote listing hands back some list of paths.
GetFilePaths ==
    /\ call = "dates"
    /\ file_list = None
    /\ \E n \in 0..MaxLen : \E l \in [1..n -> Paths] :
          file_list' = [items |-> l]
    /\ UNCHANGED <<call, dir, edits, outcome>>

FilterDates ==
    /\ call = "dates"
    /\ file_list # None
    /\ outcome = NoCall
    /\ \E tp \in Windows :
          outcome' = filter_dates(file_list.items, tp)
                       @@ [time_period |-> tp]
    /\ UNCHANGED <<call, file_list, dir, edits>>

CreateEmptyHypotheses ==
    /\ call = "params"
    /\ outcome' = create_empty_hypotheses(dir).result
    /\ dir' = create_empty_hypotheses(dir).dir
    /\ UNCHANGED <<call, file_list, edits>>

ValidateParamFile ==
    /\ call = "params"
    /\ outcome' = validate_param_file(dir)
    /\ UNCHANGED <<call, file_list, dir, edits>>

\* External hand edits of the directory between calls.
Edited(d) ==
    /\ call = "params"
    /\ edits < MaxEdits
    /\ dir' = d
    /\ edits' = edits + 1
    /\ outcome' = NoCall
    /\ UNCHANGED <<call, file_list>>

WithFile(fn, table) == [dir EXCEPT !.files[fn] = table]

DeleteFile ==
    \E fn \in DOMAIN dir.files \cap EditedFiles :
        Edited([dir EXCEPT !.files =
                   [f \in DOMAIN dir.files \ {fn} |-> dir.files[f]]])

DeleteParams ==
    /\ dir.spec # None
    /\ Edited([dir EXCEPT !.spec = None])

RecaseColumn ==
    \E fn \in DOMAIN dir.files \cap EditedFiles : \E c \in 1..Len(dir.files[fn].header) :
        \E spelling \in Spellings(dir.files[fn].header[c]) :
            /\ spelling # dir.files[fn].header[c]
            /\ Edited(WithFile(fn,
                  [dir.files[fn] EXCEPT !.header[c] = spelling]))

DropColumn ==
    \E fn \in DOMAIN dir.files \cap EditedFiles : \E c \in 1..Len(dir.files[fn].header) :
        LET hd == dir.files[fn]
        IN  /\ Len(hd.header) > 1
            /\ Edited(WithFile(fn,
                  [header |-> SubSeq(hd.header, 1, c - 1)
                                \o SubSeq(hd.header, c + 1, Len(hd.header)),
                   labels |-> IF c = 1
                              THEN [k \in 1..Len(hd.labels) |-> "0"]
                              ELSE hd.labels]))

DropRow ==
    \E fn \in DOMAIN dir.files \cap EditedFiles : \E a \in EditedActions :
        /\ a \in SeqToSet(dir.files[fn].labels)
        /\ Edited(WithFile(fn,
              [dir.files[fn] EXCEPT
                  !.labels = SelectSeq(@, LAMBDA v : v # a)]))

AddRow ==
    \E fn \in DOMAIN dir.files \cap EditedFiles : \E a \in ExtraLabels :
        /\ a \notin SeqToSet(dir.files[fn].labels)
        /\ Edited(WithFile(fn,
              [dir.files[fn] EXCEPT !.labels = Append(@, a)]))

Next ==
    \/ GetFilePaths
    \/ FilterDates
    \/ CreateEmptyHypotheses
    \/ ValidateParamFile
    \/ DeleteFile
    \/ DeleteParams
    \/ RecaseColumn
    \/ DropColumn
    \/ DropRow
    \/ AddRow

Spec == Init /\ [][Next]_vars

(***************************************************************************)
(* Properties of filter_dates                                              *)
(***************************************************************************)
\* The calendar order of date texts, and the paths' embedded dates, stated
\* without the code's datetime objects.
Ord(t) == (t.y * 12 + t.m) * 31 + t.d
IsCalendarDate(t) == t.m \in 1..12 /\ t.d \in 1..DaysInMonth(t.y, t.m)
HasMatch(path) == \E k \in 1..Len(path) : IsDateSeg(path[k])
FirstMatch(path) ==
    path[CHOOSE k \in 1..Len(path) :
            IsDateSeg(path[k]) /\ \A j \in 1..(k - 1) : ~IsDateSeg(path[j])]
IsDated(path) == HasMatch(path) /\ IsCalendarDate(FirstMatch(path))

FilterDone == outcome.op = "filter_dates"
Items == file_list.items
ReqStart == outcome.time_period[1]
ReqEnd == outcome.time_period[2]
DatedItems == {k \in 1..Len(Items) : IsDated(Items[k])}
\* every match in the list is a calendar date, so the bounds get collected
ParseCompletes ==
    \A k \in 1..Len(Items) : HasMatch(Items[k]) => IsDated(Items[k])
EarliestText ==
    FirstMatch(Items[CHOOSE k \in DatedItems : \A j \in DatedItems :
                 Ord(FirstMatch(Items[k])) <= Ord(FirstMatch(Items[j]))])
LatestText ==
    FirstMatch(Items[CHOOSE k \in DatedItems : \A j \in DatedItems :
                 Ord(FirstMatch(Items[k])) >= Ord(FirstMatch(Items[j]))])
InsideAvailable ==
    Ord(EarliestText) <= Ord(ReqStart) /\ Ord(ReqEnd) <= Ord(LatestText)
DateInRequest(path) ==
    Ord(ReqStart) <= Ord(FirstMatch(path)) /\ Ord(FirstMatch(path)) <= Ord(ReqEnd)
AllDated == Items # <<>> /\ \A k \in 1..Len(Items) : IsDated(Items[k])

\* C1: when every path holds an ISO date and the requested window lies
\* inside the parsed min/max, filter_dates returns exactly the paths whose
\* date d has s <= d <= e, boundary dates included, in list order.
C1_WindowInsideReturnsExactSubsequence ==
    (FilterDone /\ AllDated /\ InsideAvailable)
        => /\ outcome.kind = "return"
           /\ outcome.value = SelectSeq(Items, DateInRequest)

\* A window inside the bounds that keeps a path dated exactly s, keeps a
\* path dated exactly e, and drops another path.
C1_Witness ==
    /\ FilterDone /\ AllDated /\ InsideAvailable
    /\ outcome.kind = "return"
    /\ Ord(ReqStart) < Ord(ReqEnd)
    /\ \E k \in 1..Len(outcome.value) : FirstMatch(outcome.value[k]) = ReqStart
    /\ \E k \in 1..Len(outcome.value) : FirstMatch(outcome.value[k]) = ReqEnd
    /\ Len(outcome.value) < Len(Items)

\* C2: with at least one parsed date, a window that ends after the latest
\* date or starts before the earliest makes filter_dates raise ValueError
\* with a message holding the requested start and end and the available
\* min and max.
C2_OutsideRaisesRangeError ==
    (FilterDone /\ DatedItems # {} /\ ParseCompletes /\ ~InsideAvailable)
        => /\ outcome.kind = "raise"
           /\ outcome.exc = "ValueError"
           /\ outcome.msg.head = "time_period is outside available dates"
           /\ outcome.msg.requested = <<ReqStart, ReqEnd>>
           /\ outcome.msg.available =
                  <<<<EarliestText.y, EarliestText.m, EarliestText.d, 0, 0, 0>>,
                    <<LatestText.y, LatestText.m, LatestText.d, 0, 0, 0>>>>

\* A window that starts before the earliest date while its end is inside,
\* on a list that also holds an undated path.
C2_Witness ==
    /\ FilterDone /\ DatedItems # {} /\ ParseCompletes
    /\ Ord(ReqStart) < Ord(EarliestText)
    /\ Ord(ReqEnd) <= Ord(LatestText)
    /\ \E k \in 1..Len(Items) : ~HasMatch(Items[k])
    /\ outcome.kind = "raise"

\* C3: on an empty list, or a list in which no path holds a parseable
\* date, filter_dates raises ValueError for every window, with a message
\* that is not the out-of-bounds one and names no bounds.
C3_NoDatesRaisesDistinctError ==
    (FilterDone /\ DatedItems = {})
        => /\ outcome.kind = "raise"
           /\ outcome.exc = "ValueError"
           /\ outcome.msg.head # "time_period is outside available dates"
           /\ DOMAIN outcome.msg = {"head"}
           /\ (\A k \in 1..Len(Items) : ~HasMatch(Items[k]))
                 => outcome.msg.head = "Dates provided are not within the list"

\* A non-empty list of undated paths has been refused.
C3_Witness ==
    /\ FilterDone /\ Items # <<>>
    /\ \A k \in 1..Len(Items) : ~HasMatch(Items[k])
    /\ outcome.kind = "raise"
(***************************************************************************)
(* Properties of validate_param_file and create_empty_hypotheses           *)
(***************************************************************************)
ValidateDone == outcome.op = "validate_param_file"
SpecPresent == dir.spec # None

\* The eight file names the validator is documented to expect.
ExpectedFiles ==
    <<"actions_effects_on_mh_absent.csv", "actions_effects_on_mh_easy.csv",
      "actions_effects_on_mh_medium.csv", "actions_effects_on_mh_hard.csv",
      "lockdown_absent.csv", "lockdown_easy.csv",
      "lockdown_medium.csv", "lockdown_hard.csv">>
ExpectedSet == SeqToSet(ExpectedFiles)
AbsentFiles == ExpectedSet \ DOMAIN dir.files
PresentFiles == ExpectedSet \cap DOMAIN dir.files

\* The ten actions of the vocabulary.
Vocabulary ==
    {"work_from_home", "maintain_physical_distance", "stay_at_home",
     "exercise", "socialise", "travel", "seek_help", "negative_coping",
     "positive_coping", "socialise_online"}

\* Two names that differ in letter case at most, and a name's lower case.
SameName(a, b) ==
    a = b \/ \E row \in CaseTable : {a, b} \subseteq ({row[1]} \cup row[2])
LowerName(n) ==
    IF \E row \in CaseTable : SameName(row[1], n)
    THEN (CHOOSE row \in CaseTable : SameName(row[1], n))[1]
    ELSE n

RequiredColumns ==
    {"actions", "baseline"} \cup SeqToSet(_get_one_hot_encoded_features(dir.spec))
HeaderOf(fn) == SeqToSet(dir.files[fn].header)
\* the required columns that no header name of fn spells, in lower case
LackingColumns(fn) ==
    {LowerName(r) : r \in {q \in RequiredColumns :
                              \A c \in HeaderOf(fn) : ~SameName(q, c)}}
HasActionsColumn(fn) == "actions" \in HeaderOf(fn)
\* the values of fn's column named actions
ActionLabels(fn) ==
    {dir.files[fn].labels[k] : k \in 1..Len(dir.files[fn].labels)}
LackingActions(fn) == Vocabulary \ ActionLabels(fn)

FilesLackingColumns == {fn \in PresentFiles : LackingColumns(fn) # {}}
FilesLackingActions ==
    {fn \in PresentFiles : HasActionsColumn(fn) /\ LackingActions(fn) # {}}

Raises(exc, head) ==
    /\ outcome.kind = "raise"
    /\ outcome.exc = exc
    /\ outcome.msg.head = head
ReportedFiles ==
    IF outcome.kind = "raise" /\ "files" \in DOMAIN outcome.msg
    THEN SeqToSet(outcome.msg.files) ELSE {}
ReportedLines(head) ==
    IF outcome.kind = "raise" /\ outcome.msg.head = head
       /\ "lines" \in DOMAIN outcome.msg
    THEN {<<outcome.msg.lines[k].file, outcome.msg.lines[k].names>> :
             k \in 1..Len(outcome.msg.lines)}
    ELSE {}

\* C4: with the specification file, all eight expected files, every header
\* holding actions, baseline and every encoded feature, and every actions
\* column holding every action of the vocabulary, validate_param_file
\* returns without raising.
C4_ConsistentFamilyPasses ==
    (/\ ValidateDone /\ SpecPresent /\ AbsentFiles = {}
     /\ \A fn \in ExpectedSet :
           /\ HasActionsColumn(fn)
           /\ LackingColumns(fn) = {}
           /\ LackingActions(fn) = {})
        => outcome.kind = "return"

\* A passing family in which one header spells a feature column in another
\* letter case than the specification does.
C4_Witness ==
    /\ ValidateDone /\ SpecPresent /\ AbsentFiles = {}
    /\ outcome.kind = "return"
    /\ \E fn \in ExpectedSet : ~(RequiredColumns \subseteq HeaderOf(fn))

\* C5: when all expected files exist and some lack required feature
\* columns, validate_param_file raises and the message lists every such
\* file with each of its missing columns, and no other file.
C5_MissingFeaturesListedPerFile ==
    (ValidateDone /\ SpecPresent /\ AbsentFiles = {}
        /\ FilesLackingColumns # {})
        => /\ Raises("ValueError", "Missing features")
           /\ ReportedLines("Missing features") =
                {<<fn, LackingColumns(fn)>> : fn \in FilesLackingColumns}
           /\ Len(outcome.msg.lines) = Cardinality(FilesLackingColumns)

\* Two files lack columns, a third file lacks none.
C5_Witness ==
    /\ ValidateDone /\ SpecPresent /\ AbsentFiles = {}
    /\ Cardinality(FilesLackingColumns) >= 2
    /\ outcome.kind = "raise"

\* C6 as stated: with a missing file and a present file lacking a feature
\* or an action, the one error names every missing file and every file's
\* missing features and missing actions.
C6_AllKindsInOneError ==
    (ValidateDone /\ SpecPresent /\ AbsentFiles # {}
        /\ (FilesLackingColumns # {} \/ FilesLackingActions # {}))
        => /\ ReportedFiles = AbsentFiles
           /\ \A fn \in FilesLackingColumns :
                 <<fn, LackingColumns(fn)>> \in ReportedLines("Missing features")
           /\ \A fn \in FilesLackingActions :
                 <<fn, LackingActions(fn)>> \in ReportedLines("Missing actions")

\* C6 amended: the error aggregates over all files within the first check
\* that fails.  If any expected file is missing it names every missing file
\* and nothing else; if none is missing and files lack both features and
\* actions it names every file's missing features and no missing actions.
C6_AggregatesWithinFirstFailingCheck ==
    /\ (ValidateDone /\ AbsentFiles # {})
          => /\ Raises("ValueError", "Hypothesis file(s) not found")
             /\ outcome.msg.files =
                   SelectSeq(ExpectedFiles, LAMBDA fn : fn \in AbsentFiles)
             /\ "lines" \notin DOMAIN outcome.msg
    /\ (ValidateDone /\ SpecPresent /\ AbsentFiles = {}
           /\ FilesLackingColumns # {} /\ FilesLackingActions # {})
          => /\ Raises("ValueError", "Missing features")
             /\ ReportedLines("Missing features") =
                   {<<fn, LackingColumns(fn)>> : fn \in FilesLackingColumns}
             /\ ReportedLines("Missing actions") = {}

\* Several files are missing while one present file lacks a feature and one
\* lacks an action.
C6_Witness ==
    /\ ValidateDone /\ SpecPresent
    /\ Cardinality(AbsentFiles) >= 2
    /\ FilesLackingColumns # {}
    /\ FilesLackingActions # {}
    /\ outcome.kind = "raise"

\* C7: when params_individual.json is absent, validate_param_file reports
\* that as a not-found failure ahead of every per-file check, whatever the
\* state of the hypothesis files.
C7_AbsentSpecReportedFirst ==
    (ValidateDone /\ ~SpecPresent)
        => /\ outcome.kind = "raise"
           /\ outcome.exc = "FileNotFoundError"
           /\ outcome.msg.filename = "params_individual.json"

\* C8 as stated: a family is accepted only if every file's actions column,
\* as a set, equals the vocabulary.
C8_AcceptsOnlyEqualActionSets ==
    (ValidateDone /\ outcome.kind = "return")
        => \A fn \in ExpectedSet : ActionLabels(fn) = Vocabulary

\* C8 amended: a family with all files, all columns and a column named
\* actions in every file is accepted exactly when every file's actions
\* column contains the vocabulary; labels outside the vocabulary are
\* accepted, a lacking vocabulary action is reported as missing.
C8_AcceptsSupersetsOfVocabulary ==
    (/\ ValidateDone /\ SpecPresent /\ AbsentFiles = {}
     /\ \A fn \in ExpectedSet : HasActionsColumn(fn) /\ LackingColumns(fn) = {})
        => /\ outcome.kind = "return"
                 <=> \A fn \in ExpectedSet : Vocabulary \subseteq ActionLabels(fn)
           /\ outcome.kind = "raise"
                 => /\ Raises("ValueError", "Missing actions")
                    /\ ReportedLines("Missing actions") =
                          {<<fn, LackingActions(fn)>> : fn \in FilesLackingActions}

\* An accepted family in which a file's actions column holds a label that
\* is not in the vocabulary.
C8_Witness ==
    /\ ValidateDone /\ outcome.kind = "return"
    /\ \E fn \in ExpectedSet : ~(ActionLabels(fn) \subseteq Vocabulary)

\* The directory with every header name of every file in lower case.
HeadersLowered(d) ==
    [d EXCEPT !.files =
        [fn \in DOMAIN d.files |->
            [d.files[fn] EXCEPT !.header =
                [c \in 1..Len(d.files[fn].header) |->
                    LowerName(d.files[fn].header[c])]]]]

\* C9: changing only the letter case of header names, of any column, does
\* not change what validate_param_file does.
C9_HeaderCaseDoesNotMatter ==
    ValidateDone => outcome = validate_param_file(HeadersLowered(dir))

\* C10: in a directory that held only a valid specification file and was
\* then filled by create_empty_hypotheses, validate_param_file succeeds.
C10_GeneratedFamilyValidates ==
    (/\ ValidateDone /\ SpecPresent
     /\ dir = create_empty_hypotheses(SpecOnlyDir(dir.spec)).dir)
        => outcome.kind = "return"

(***************************************************************************)
(* Undated paths in filter_dates                                           *)
(***************************************************************************)
UndatedItems == {k \in 1..Len(Items) : ~HasMatch(Items[k])}
WithoutUndated == SelectSeq(Items, HasMatch)

\* C11: on a list holding at least one dated and at least one undated path,
\* and a window inside the parsed bounds, filter_dates returns what it
\* returns for the list without the undated paths: the dated paths inside
\* the window, no undated path, and no failure.
C11_UndatedPathsSkippedWhenFiltering ==
    (/\ FilterDone /\ ParseCompletes
     /\ DatedItems # {} /\ UndatedItems # {}
     /\ InsideAvailable)
        => /\ outcome.kind = "return"
           /\ outcome.value = SelectSeq(WithoutUndated, DateInRequest)
           /\ outcome.value = filter_dates(WithoutUndated,
                                           outcome.time_period).value
====
